---- MODULE Spec2Model ----
(***************************************************************************)
(* A model of the "Calculate Versions" action (src/src/index.ts): the run  *)
(* pipeline (discovery, oracle queries, aggregation, outputs, manifest     *)
(* mutation, job summary) and the pure text functions it is built from.    *)
(*                                                                         *)
(* Text is a sequence of tokens.  A token is either one of the ten tags    *)
(* the code looks for (no two occurrences of these tags can overlap in a   *)
(* string, since each starts with "<", ends with ">" and holds neither in  *)
(* between, so the tokenisation of a string is unique) or a single         *)
(* character.  "x" and "r" stand for characters with no special meaning.   *)
(***************************************************************************)
EXTENDS Integers, Sequences, FiniteSets, TLC

\* ------------------------------------------------------------------ bounds

\* The longest manifest text enumerated by SpecText.
MaxTextLen == 4

\* The largest number of manifests discovery returns in Spec.
MaxProjects == 2

\* The longest record sequence enumerated by SpecMap.
MaxRecords == 2

\* ------------------------------------------------------------------- text

Tags == {"Version", "VersionMajor", "VersionMinor", "VersionPatch", "VersionSuffix"}

OpenTag == [t \in Tags |->
              CASE t = "Version"       -> "<Version>"
                [] t = "VersionMajor"  -> "<VersionMajor>"
                [] t = "VersionMinor"  -> "<VersionMinor>"
                [] t = "VersionPatch"  -> "<VersionPatch>"
                [] t = "VersionSuffix" -> "<VersionSuffix>"]

CloseTag == [t \in Tags |->
              CASE t = "Version"       -> "</Version>"
                [] t = "VersionMajor"  -> "</VersionMajor>"
                [] t = "VersionMinor"  -> "</VersionMinor>"
                [] t = "VersionPatch"  -> "</VersionPatch>"
                [] t = "VersionSuffix" -> "</VersionSuffix>"]

\* The characters /\d/ matches (the model's versions use these four).
Digits == {"0", "1", "2", "3"}

\* The line terminator: "." of a regular expression does not match it.
NL == "\n"

\* The last index j > i with s[j] = CloseTag[t] reachable from i by ".*",
\* that is with no line terminator in between; 0 when there is none.
\* This is the greedy ".*" followed by the close tag, after backtracking.
LastCloseOnLine(s, i, t) ==
  LET ok == {j \in (i+1)..Len(s) :
               /\ s[j] = CloseTag[t]
               /\ \A k \in (i+1)..(j-1) : s[k] # NL}
  IN IF ok = {} THEN 0 ELSE CHOOSE j \in ok : \A k \in ok : k <= j

\* String.prototype.replace's expansion of a replacement string for the match
\* s[i..j]: "$$" is "$", "$&" the match, "$`" the text before it, "$'" the
\* text after it; the expressions have no capture groups, so "$1".."$99" and
\* "$<" stay as written.
RECURSIVE GetSubstitution(_, _, _, _, _)
GetSubstitution(template, k, s, i, j) ==
  IF k > Len(template) THEN <<>>
  ELSE IF template[k] = "$" /\ k < Len(template) /\ template[k+1] = "$"
    THEN <<"$">> \o GetSubstitution(template, k+2, s, i, j)
  ELSE IF template[k] = "$" /\ k < Len(template) /\ template[k+1] = "&"
    THEN SubSeq(s, i, j) \o GetSubstitution(template, k+2, s, i, j)
  ELSE IF template[k] = "$" /\ k < Len(template) /\ template[k+1] = "`"
    THEN SubSeq(s, 1, i-1) \o GetSubstitution(template, k+2, s, i, j)
  ELSE IF template[k] = "$" /\ k < Len(template) /\ template[k+1] = "'"
    THEN SubSeq(s, j+1, Len(s)) \o GetSubstitution(template, k+2, s, i, j)
  ELSE <<template[k]>> \o GetSubstitution(template, k+1, s, i, j)

\* s.replace(/<t>.*<\/t>/g, template) from index i on: the leftmost match,
\* taken greedily, is replaced and the search resumes after it.
RECURSIVE ReplaceFrom(_, _, _, _)
ReplaceFrom(s, i, t, template) ==
  IF i > Len(s) THEN <<>>
  ELSE IF s[i] = OpenTag[t] /\ LastCloseOnLine(s, i, t) # 0
    THEN LET j == LastCloseOnLine(s, i, t)
         IN GetSubstitution(template, 1, s, i, j) \o ReplaceFrom(s, j+1, t, template)
  ELSE <<s[i]>> \o ReplaceFrom(s, i+1, t, template)

\* The replacement string `<t>${value}</t>` of one replace call.
Element(t, value) == <<OpenTag[t]>> \o value \o <<CloseTag[t]>>

ReplaceElement(s, t, value) == ReplaceFrom(s, 1, t, Element(t, value))

\* --------------------------------------------------------------- versions

\* The length of the longest run of digits of v starting at index i.
RECURSIVE DigitRun(_, _)
DigitRun(v, i) ==
  IF i <= Len(v) /\ v[i] \in Digits THEN 1 + DigitRun(v, i+1) ELSE 0

\* version.match(/^(\d+)\.(\d+)\.(\d+)(?:-(.+))?$/) for digit runs of lengths a,
\* b and c: matched, and the four groups; prerelease is <<>> when the
\* optional group did not take part.
VersionGroups(v, a, b, c) ==
  LET e == a + b + c + 2             \* the index of the last digit of patch
      core == /\ a > 0 /\ a + 1 <= Len(v) /\ v[a+1] = "."
              /\ b > 0 /\ a + b + 2 <= Len(v) /\ v[a+b+2] = "."
              /\ c > 0
  IN IF core /\ Len(v) = e
       THEN [matched |-> TRUE,
             major |-> SubSeq(v, 1, a),
             minor |-> SubSeq(v, a + 2, a + b + 1),
             patch |-> SubSeq(v, a + b + 3, e),
             prerelease |-> <<>>]
     ELSE IF /\ core /\ Len(v) >= e + 2 /\ v[e+1] = "-"
             /\ \A k \in (e+2)..Len(v) : v[k] # NL
       THEN [matched |-> TRUE,
             major |-> SubSeq(v, 1, a),
             minor |-> SubSeq(v, a + 2, a + b + 1),
             patch |-> SubSeq(v, a + b + 3, e),
             prerelease |-> SubSeq(v, e + 2, Len(v))]
     ELSE [matched |-> FALSE, major |-> <<>>, minor |-> <<>>,
           patch |-> <<>>, prerelease |-> <<>>]

MatchPatch(v, a, b) == VersionGroups(v, a, b, DigitRun(v, a + b + 3))

MatchMinor(v, a) == MatchPatch(v, a, DigitRun(v, a + 2))

MatchVersion(v) == MatchMinor(v, DigitRun(v, 1))

\* The last replace call (index.ts 378-383): only with a prerelease.
ReplaceSuffix(s, prerelease) ==
  IF prerelease # <<>> THEN ReplaceElement(s, "VersionSuffix", prerelease) ELSE s

\* updateProjectFile's five replace calls, in order (index.ts 356-383), for
\* the groups m of the version.
ReplaceAll(content, version, m) ==
  ReplaceSuffix(
    ReplaceElement(
      ReplaceElement(
        ReplaceElement(
          ReplaceElement(content, "Version", version),
          "VersionMajor", m.major),
        "VersionMinor", m.minor),
      "VersionPatch", m.patch),
    m.prerelease)

UpdatedContent(content, version) == ReplaceAll(content, version, MatchVersion(version))

\* index.ts 385-389: write only if the content changed.
WriteIfChanged(content, updated) ==
  [warning |-> FALSE, write |-> updated # content, content |-> updated]

\* updateProjectFile without the early return of index.ts 348-351.
updateProjectFileNoReturn(content, project) ==
  WriteIfChanged(content, UpdatedContent(content, project.version))

\* updateProjectFile once the manifest has been read: a warning and no write
\* when the version does not parse, else a write iff the content changed.
\* content is the file's content afterwards.
updateProjectFile(content, project) ==
  IF ~MatchVersion(project.version).matched
    THEN [warning |-> TRUE, write |-> FALSE, content |-> content]
    ELSE WriteIfChanged(content, UpdatedContent(content, project.version))

\* version.split(/[.-]/): the pieces between separators, empty ones kept.
RECURSIVE SplitVersion(_, _, _)
SplitVersion(v, i, piece) ==
  IF i > Len(v) THEN <<piece>>
  ELSE IF v[i] \in {".", "-"}
    THEN <<piece>> \o SplitVersion(v, i+1, <<>>)
  ELSE SplitVersion(v, i+1, Append(piece, v[i]))

\* parts.join('.')
RECURSIVE JoinDots(_)
JoinDots(parts) ==
  IF parts = <<>> THEN <<>>
  ELSE IF Len(parts) = 1 THEN parts[1]
  ELSE parts[1] \o <<".">> \o JoinDots(Tail(parts))

\* versionParts[k] || '0', with k counted from 1.
PartOrZero(parts, k) ==
  IF k <= Len(parts) /\ parts[k] # <<>> THEN parts[k] ELSE <<"0">>

\* index.ts 103-107: the outputs from the first project's version and its
\* pieces.
OutputsOfParts(version, versionParts) ==
  [version |-> version,
   major |-> PartOrZero(versionParts, 1),
   minor |-> PartOrZero(versionParts, 2),
   patch |-> PartOrZero(versionParts, 3),
   prerelease |-> IF Len(versionParts) > 3
                    THEN JoinDots(SubSeq(versionParts, 4, Len(versionParts)))
                    ELSE <<>>]

\* The five version outputs run sets (index.ts 98-114), from the post-filter
\* project list.
VersionOutputs(projects) ==
  IF Len(projects) > 0
    THEN OutputsOfParts(projects[1].version, SplitVersion(projects[1].version, 1, <<>>))
    ELSE [version |-> <<"0", ".", "1", ".", "0">>,
          major |-> <<"0">>, minor |-> <<"1">>, patch |-> <<"0">>,
          prerelease |-> <<>>]

\* ------------------------------------------------------------ aggregation

\* A key of the version map, and a path, is a sequence of segments: the string
\* they make joined by "/".  A path is absolute and normalised.
Cwd == <<"w">>

\* The number of leading segments a and b share.
RECURSIVE CommonPrefix(_, _)
CommonPrefix(a, b) ==
  IF a # <<>> /\ b # <<>> /\ Head(a) = Head(b)
    THEN 1 + CommonPrefix(Tail(a), Tail(b))
    ELSE 0

\* path.relative(from, to): ".." for each segment of from below the common
\* prefix, then the rest of to.
PathRelative(from, to) ==
  LET c == CommonPrefix(from, to)
  IN [i \in 1..(Len(from) - c) |-> ".."] \o SubSeq(to, c + 1, Len(to))

\* path.dirname
Dirname(path) == SubSeq(path, 1, Len(path) - 1)

\* generateSummary: the three counts, then the changed listing (name, version)
\* and the unchanged listing, each in the order of allProjects.
generateSummary(allProjects, changedProjects) ==
  [total |-> Len(allProjects),
   changed |-> Len(changedProjects),
   unchanged |-> Len(allProjects) - Len(changedProjects),
   changedLines |-> IF Len(changedProjects) > 0
                      THEN [i \in 1..Len(changedProjects) |->
                              <<changedProjects[i].project, changedProjects[i].version>>]
                      ELSE <<>>,
   unchangedLines |-> IF Len(allProjects) - Len(changedProjects) > 0
                        THEN LET u == SelectSeq(allProjects, LAMBDA p : ~p.versionChanged)
                             IN [i \in 1..Len(u) |-> <<u[i].project, u[i].version>>]
                        ELSE <<>>]

\* analyzeResults taking the changed projects from the unfiltered list.
analyzeResultsChangedOfAll(projects, includeTestProjects) ==
  LET filteredProjects == IF includeTestProjects
                            THEN projects
                            ELSE SelectSeq(projects, LAMBDA p : ~p.isTestProject)
      changedProjects == SelectSeq(projects, LAMBDA p : p.versionChanged)
  IN [projects |-> filteredProjects,
      changedProjects |-> changedProjects,
      hasChanges |-> Len(changedProjects) > 0,
      summary |-> generateSummary(filteredProjects, changedProjects)]

\* analyzeResults with the test projects left in.
analyzeResultsKeepTests(projects, includeTestProjects) ==
  LET changedProjects == SelectSeq(projects, LAMBDA p : p.versionChanged)
  IN [projects |-> projects,
      changedProjects |-> changedProjects,
      hasChanges |-> Len(changedProjects) > 0,
      summary |-> generateSummary(projects, changedProjects)]

analyzeResults(projects, includeTestProjects) ==
  LET filteredProjects == IF includeTestProjects
                            THEN projects
                            ELSE SelectSeq(projects, LAMBDA p : ~p.isTestProject)
      changedProjects == SelectSeq(filteredProjects, LAMBDA p : p.versionChanged)
  IN [projects |-> filteredProjects,
      changedProjects |-> changedProjects,
      hasChanges |-> Len(changedProjects) > 0,
      summary |-> generateSummary(filteredProjects, changedProjects)]

\* Put keeping the value a key already has.
PutIfAbsent(map, k, v) ==
  [x \in DOMAIN map \cup {k} |-> IF x \in DOMAIN map THEN map[x] ELSE v]

\* map[k] = v on a map held as a function.
Put(map, k, v) == [x \in DOMAIN map \cup {k} |-> IF x = k THEN v ELSE map[x]]

RECURSIVE VersionMapFrom(_, _, _)
VersionMapFrom(projects, i, map) ==
  IF i > Len(projects) THEN map
  ELSE LET project == projects[i]
           byName == Put(map, project.project, project.version)
           relativePath == PathRelative(Cwd, project.path)
       IN VersionMapFrom(projects, i + 1, Put(byName, relativePath, project.version))

createVersionMap(projects) == VersionMapFrom(projects, 1, <<>>)

\* The template of index.ts 406-419 for the groups m of the version.  Tokens
\* other than those of the version stand for the template's fixed text.
PropsTemplate(project, m) ==
  <<"<Project>", NL, "<!-- Generated by Mister.Version -->", NL, "<PropertyGroup>", NL>>
  \o Element("Version", project.version) \o <<NL>>
  \o Element("VersionMajor", m.major) \o <<NL>>
  \o Element("VersionMinor", m.minor) \o <<NL>>
  \o Element("VersionPatch", m.patch)
  \o (IF m.prerelease # <<>>
        THEN <<NL>> \o Element("VersionSuffix", m.prerelease)
        ELSE <<>>)
  \o <<NL, "<AssemblyVersion>">> \o m.major \o <<".">> \o m.minor \o <<".">> \o m.patch
  \o <<".", "0", "</AssemblyVersion>">>
  \o <<NL, "<FileVersion>">> \o m.major \o <<".">> \o m.minor \o <<".">> \o m.patch
  \o <<".", "0", "</FileVersion>">>
  \o <<NL, "<InformationalVersion>">> \o project.version
  \o (IF project.commitSha # <<>>
        THEN <<"+">> \o SubSeq(project.commitSha, 1,
                                IF Len(project.commitSha) < 7
                                  THEN Len(project.commitSha) ELSE 7)
        ELSE <<>>)
  \o <<"</InformationalVersion>", NL, "</PropertyGroup>", NL, "</Project>", NL>>

\* The text writeMrVersionPropsFile writes for a record whose version parses.
PropsContent(project) == PropsTemplate(project, MatchVersion(project.version))

\* ---------------------------------------------------------------- the run

VARIABLES
  pc,            \* where run is: the statement it executes next
  inputs,        \* the boolean inputs read at index.ts 39-45
  projectFiles,  \* what findProjectFiles returned
  results,       \* the records pushed so far (index.ts 66-79)
  analysis,      \* analysisResult (index.ts 82), <<>> before
  outputs,       \* name -> value of the outputs set, <<>> before
  failed,        \* whether core.setFailed has been called
  thrown,        \* "none", or the error that reached run's catch block
  warnings,      \* the core.warning calls so far, in order
  fs,            \* manifest path -> content
  props,         \* directory -> content of its MrVersion.props, <<>> if none
  ops,           \* the file operations attempted so far, in order
  ui,            \* updateProjects' position in its list
  summaryWritten,\* whether core.summary.write() has completed
  hStep,         \* the pure-function specifications: the step
  hIn,           \*   the input drawn
  hOut           \*   the results so far

runVars == <<pc, inputs, projectFiles, results, analysis, outputs, failed,
             thrown, warnings, fs, props, ops, ui, summaryWritten>>
hVars == <<hStep, hIn, hOut>>
vars == <<pc, inputs, projectFiles, results, analysis, outputs, failed,
          thrown, warnings, fs, props, ops, ui, summaryWritten, hStep, hIn, hOut>>

V123 == <<"1", ".", "2", ".", "3">>
V200rc1 == <<"2", ".", "0", ".", "0", "-", "r", "-", "1">>
VBad == <<"x">>

\* The versions the oracle answers with in Spec: a plain one, one with a
\* prerelease holding a "-", and one that does not parse.
RunVersions == {V123, V200rc1, VBad}

\* The i-th manifest of the repository: the first two share a directory.
PathOf(i) ==
  <<"w", IF i <= 2 THEN "a" ELSE "b",
    CASE i = 1 -> "A.csproj" [] i = 2 -> "B.csproj" [] i = 3 -> "C.csproj"
      [] OTHER -> "D.csproj">>

NameOf(i) ==
  CASE i = 1 -> <<"A">> [] i = 2 -> <<"B">> [] i = 3 -> <<"C">> [] OTHER -> <<"D">>

IndexOfPath(path) == CHOOSE i \in 1..4 : PathOf(i) = path

\* The manifests on disk when the run starts: the second already holds V123.
ManifestOf(i) ==
  IF i = 2 THEN Element("Version", V123) \o <<NL>> \o Element("VersionMajor", <<"1">>)
           ELSE Element("Version", <<"0">>) \o <<NL>> \o Element("VersionMajor", <<"0">>)

\* What the oracle answers for the i-th manifest: any of RunVersions, test
\* project or not, changed or not, for the first two; the plain version, no
\* test project and a changed version beyond.
VersionsOf(i) == IF i <= 2 THEN RunVersions ELSE {V123}

TestFlagsOf(i) == IF i <= 2 THEN BOOLEAN ELSE {FALSE}

ChangedFlagsOf(i) == IF i <= 2 THEN BOOLEAN ELSE {TRUE}

\* What the oracle may print for a manifest: a record of this shape (only the
\* fields the action reads; changeReason and the other provenance fields are
\* carried along untouched).
OracleRecords(path) ==
  {[project |-> NameOf(IndexOfPath(path)), path |-> path, version |-> v,
    versionChanged |-> c, isTestProject |-> t,
    commitSha |-> IF IndexOfPath(path) = 1 THEN <<"a", "b", "c">> ELSE <<>>] :
     v \in VersionsOf(IndexOfPath(path)), c \in ChangedFlagsOf(IndexOfPath(path)),
     t \in TestFlagsOf(IndexOfPath(path))}

InputNames == {"failOnNoChanges", "updateProjectProperties", "writeMrVersionProps",
               "outputVersionInformation", "dryRun", "includeTestProjects"}

RunInit ==
  /\ pc = "inputs"
  /\ inputs = [n \in InputNames |-> FALSE]
  /\ projectFiles = <<>>
  /\ results = <<>>
  /\ analysis = <<>>
  /\ outputs = <<>>
  /\ failed = FALSE
  /\ thrown = "none"
  /\ warnings = <<>>
  /\ fs = [p \in {PathOf(i) : i \in 1..MaxProjects} |-> ManifestOf(IndexOfPath(p))]
  /\ props = [d \in {Dirname(PathOf(i)) : i \in 1..MaxProjects} |-> <<>>]
  /\ ops = <<>>
  /\ ui = 0
  /\ summaryWritten = FALSE

HarnessOff == hStep = "off" /\ hIn = <<>> /\ hOut = <<>>

Init == RunInit /\ HarnessOff

\* An error thrown inside run's try block: the catch block (index.ts
\* 135-137) calls core.setFailed and run returns.
Throw(error) ==
  /\ thrown' = error
  /\ failed' = TRUE
  /\ pc' = "done"

\* core.setFailed followed by return (index.ts 59-60, 86-87).
FailAndReturn ==
  /\ failed' = TRUE
  /\ pc' = "done"
  /\ UNCHANGED thrown

\* index.ts 32-45: core.getBooleanInput throws on a value that is no boolean.
ReadInputs ==
  /\ pc = "inputs"
  /\ \/ /\ \E i \in [InputNames -> BOOLEAN] : inputs' = i
        /\ pc' = "discover"
        /\ UNCHANGED <<failed, thrown>>
     \/ /\ Throw("input")
        /\ UNCHANGED inputs
  /\ UNCHANGED <<projectFiles, results, analysis, outputs, warnings, fs, props,
                 ops, ui, summaryWritten, hVars>>

\* index.ts 50: the glob may throw.
FindProjectFiles ==
  /\ pc = "discover"
  /\ \/ /\ \E n \in 0..MaxProjects : projectFiles' = [i \in 1..n |-> PathOf(i)]
        /\ pc' = "checkEmpty"
        /\ UNCHANGED <<failed, thrown>>
     \/ /\ Throw("discovery")
        /\ UNCHANGED projectFiles
  /\ UNCHANGED <<inputs, results, analysis, outputs, warnings, fs, props,
                 ops, ui, summaryWritten, hVars>>

\* index.ts 57-63
CheckEmpty ==
  /\ pc = "checkEmpty"
  /\ IF Len(projectFiles) = 0 /\ inputs.failOnNoChanges
       THEN FailAndReturn /\ UNCHANGED warnings
       ELSE /\ pc' = "query"
            /\ UNCHANGED <<failed, thrown>>
            /\ warnings' = IF Len(projectFiles) = 0
                             THEN Append(warnings, [kind |-> "no-files", project |-> <<>>])
                             ELSE warnings
  /\ UNCHANGED <<inputs, projectFiles, results, analysis, outputs, fs, props,
                 ops, ui, summaryWritten, hVars>>

\* index.ts 67-79 with calculateProjectVersion (167-218): one pass of the
\* loop.  The oracle exits non-zero, prints nothing or prints no JSON: throw.
CalculateProjectVersion ==
  /\ pc = "query"
  /\ Len(results) < Len(projectFiles)
  /\ \/ /\ \E r \in OracleRecords(projectFiles[Len(results) + 1]) :
             results' = Append(results, r)
        /\ UNCHANGED <<pc, failed, thrown>>
     \/ /\ Throw("oracle")
        /\ UNCHANGED results
  /\ UNCHANGED <<inputs, projectFiles, analysis, outputs, warnings, fs, props,
                 ops, ui, summaryWritten, hVars>>

\* index.ts 82
Analyze ==
  /\ pc = "query"
  /\ Len(results) = Len(projectFiles)
  /\ analysis' = analyzeResults(results, inputs.includeTestProjects)
  /\ pc' = "checkChanges"
  /\ UNCHANGED <<inputs, projectFiles, results, outputs, failed, thrown, warnings, fs,
                 props, ops, ui, summaryWritten, hVars>>

\* index.ts 85-88 left out: the absence of changes never fails the run.
NoChangesNeverFails(in, result) == FALSE

\* index.ts 85: the condition of the second policy failure.
NoChangesFailsAlways(in, result) == ~result.hasChanges

NoChangesFails(in, result) == in.failOnNoChanges /\ ~result.hasChanges

\* index.ts 85-88
CheckNoChanges ==
  /\ pc = "checkChanges"
  /\ IF NoChangesFails(inputs, analysis)
       THEN FailAndReturn
       ELSE pc' = "outputs" /\ UNCHANGED <<failed, thrown>>
  /\ UNCHANGED <<inputs, projectFiles, results, analysis, outputs, warnings, fs,
                 props, ops, ui, summaryWritten, hVars>>

\* hasChanges.toString()
BoolToString(b) == IF b THEN "true" ELSE "false"

\* index.ts 91-114: the ten outputs.
OutputsOf(result, v) ==
  [projects |-> result.projects,
   changedProjects |-> result.changedProjects,
   hasChanges |-> BoolToString(result.hasChanges),
   summary |-> result.summary,
   versionMap |-> createVersionMap(result.projects),
   version |-> v.version, major |-> v.major, minor |-> v.minor,
   patch |-> v.patch, prerelease |-> v.prerelease]

RunOutputs(result) == OutputsOf(result, VersionOutputs(result.projects))

SetOutputs ==
  /\ pc = "outputs"
  /\ outputs' = RunOutputs(analysis)
  /\ pc' = "mutate"
  /\ UNCHANGED <<inputs, projectFiles, results, analysis, failed, thrown, warnings, fs,
                 props, ops, ui, summaryWritten, hVars>>

\* index.ts 117-123 without the dry-run branch.
CallsUpdateProjectsInDryRun(in) == in.updateProjectProperties \/ in.writeMrVersionProps

\* index.ts 117-123: whether updateProjects is called.
CallsUpdateProjects(in) ==
  (in.updateProjectProperties \/ in.writeMrVersionProps) /\ ~in.dryRun

BeginUpdate ==
  /\ pc = "mutate"
  /\ IF CallsUpdateProjects(inputs)
       THEN pc' = "update" /\ ui' = 1
       ELSE pc' = "summary" /\ UNCHANGED ui
  /\ UNCHANGED <<inputs, projectFiles, results, analysis, outputs, failed, thrown,
                 warnings, fs, props, ops, summaryWritten, hVars>>

\* A file operation attempted for a record: readFile or writeFile, the file,
\* and whether it succeeded (FALSE: it threw).
Op(name, project, path, ok) ==
  [op |-> name, project |-> project.project, path |-> path, ok |-> ok]

ParseWarning(project) == [kind |-> "cannot-parse", project |-> project.project]

FailedWarning(project) == [kind |-> "failed-to-update", project |-> project.project]

PropsPath(project) == Dirname(project.path) \o <<"MrVersion.props">>

\* updateProjectFile after a successful read, r being what it decides:
\* the warning, or the write, which succeeds or throws.
AfterRead(project, content, r, writeOk) ==
  IF r.warning
    THEN [threw |-> FALSE, ops |-> <<Op("readFile", project, project.path, TRUE)>>,
          warns |-> <<ParseWarning(project)>>, content |-> content]
  ELSE IF ~r.write
    THEN [threw |-> FALSE, ops |-> <<Op("readFile", project, project.path, TRUE)>>,
          warns |-> <<>>, content |-> content]
  ELSE [threw |-> ~writeOk,
        ops |-> <<Op("readFile", project, project.path, TRUE),
                  Op("writeFile", project, project.path, writeOk)>>,
        warns |-> <<>>,
        content |-> IF writeOk THEN r.content ELSE content]

\* The call of updateProjectFile in updateProjects (index.ts 330-332 with
\* 343-390) for a manifest holding content: readFile succeeds or throws, and
\* so does writeFile when there is something to write.
UpdateStep(project, enabled, content, readOk, writeOk) ==
  IF ~enabled
    THEN [threw |-> FALSE, ops |-> <<>>, warns |-> <<>>, content |-> content]
  ELSE IF ~readOk
    THEN [threw |-> TRUE, ops |-> <<Op("readFile", project, project.path, FALSE)>>,
          warns |-> <<>>, content |-> content]
  ELSE AfterRead(project, content, updateProjectFile(content, project), writeOk)

\* writeMrVersionPropsFile leaving a companion file that is already there.
PropsStepKeepExisting(project, enabled, old, propsOk) ==
  IF ~enabled
    THEN [threw |-> FALSE, ops |-> <<>>, warns |-> <<>>, content |-> old]
  ELSE IF ~MatchVersion(project.version).matched
    THEN [threw |-> FALSE, ops |-> <<>>, warns |-> <<ParseWarning(project)>>,
          content |-> old]
  ELSE [threw |-> ~propsOk,
        ops |-> <<Op("writeFile", project, PropsPath(project), propsOk)>>,
        warns |-> <<>>,
        content |-> IF propsOk /\ old = <<>> THEN PropsContent(project) ELSE old]

\* The call of writeMrVersionPropsFile in updateProjects (index.ts 334-336
\* with 392-423); old is the companion file's content before.
PropsStep(project, enabled, old, propsOk) ==
  IF ~enabled
    THEN [threw |-> FALSE, ops |-> <<>>, warns |-> <<>>, content |-> old]
  ELSE IF ~MatchVersion(project.version).matched
    THEN [threw |-> FALSE, ops |-> <<>>, warns |-> <<ParseWarning(project)>>,
          content |-> old]
  ELSE [threw |-> ~propsOk,
        ops |-> <<Op("writeFile", project, PropsPath(project), propsOk)>>,
        warns |-> <<>>,
        content |-> IF propsOk THEN PropsContent(project) ELSE old]

\* The two calls with no catch around them: a throw leaves updateProjects.
Uncaught(project, u, w) ==
  [content |-> u.content,
   props |-> w.content,
   ops |-> u.ops \o w.ops,
   warns |-> u.warns \o w.warns,
   escaped |-> u.threw \/ w.threw]

\* The catch of index.ts 337-339 around the two calls' results u and w.
Caught(project, u, w) ==
  [content |-> u.content,
   props |-> w.content,
   ops |-> u.ops \o w.ops,
   warns |-> u.warns \o w.warns
             \o (IF u.threw \/ w.threw THEN <<FailedWarning(project)>> ELSE <<>>),
   escaped |-> FALSE]

\* A throw in the first call (u) skips the second.
ThenProps(project, writeProps, old, propsOk, u) ==
  Caught(project, u, PropsStep(project, writeProps /\ ~u.threw, old, propsOk))

\* One pass of updateProjects' loop (index.ts 328-340): the try block and its
\* catch.
UpdateOne(project, updateProperties, writeProps, content, old, readOk, writeOk, propsOk) ==
  ThenProps(project, writeProps, old, propsOk,
            UpdateStep(project, updateProperties, content, readOk, writeOk))

\* The effect r of one pass on the run's state.
ApplyUpdate(project, r) ==
  /\ fs' = [fs EXCEPT ![project.path] = r.content]
  /\ props' = [props EXCEPT ![Dirname(project.path)] = r.props]
  /\ ops' = ops \o r.ops
  /\ warnings' = warnings \o r.warns
  /\ IF r.escaped
       THEN Throw("update") /\ UNCHANGED ui
       ELSE ui' = ui + 1 /\ UNCHANGED <<pc, failed, thrown>>

UpdateProject ==
  /\ pc = "update"
  /\ ui <= Len(analysis.projects)
  /\ \E readOk \in BOOLEAN, writeOk \in BOOLEAN, propsOk \in BOOLEAN :
       ApplyUpdate(analysis.projects[ui],
                   UpdateOne(analysis.projects[ui], inputs.updateProjectProperties,
                             inputs.writeMrVersionProps, fs[analysis.projects[ui].path],
                             props[Dirname(analysis.projects[ui].path)],
                             readOk, writeOk, propsOk))
  /\ UNCHANGED <<inputs, projectFiles, results, analysis, outputs,
                 summaryWritten, hVars>>

\* updateProjects returns (index.ts 341).
EndUpdate ==
  /\ pc = "update"
  /\ ui > Len(analysis.projects)
  /\ pc' = "summary"
  /\ UNCHANGED <<inputs, projectFiles, results, analysis, outputs, failed, thrown,
                 warnings, fs, props, ops, ui, summaryWritten, hVars>>

\* index.ts 125-133: core.summary.write() throws when the job summary file
\* is not there to write.
WriteSummary ==
  /\ pc = "summary"
  /\ IF inputs.outputVersionInformation
       THEN \/ summaryWritten' = TRUE /\ pc' = "done" /\ UNCHANGED <<failed, thrown>>
            \/ Throw("summary") /\ UNCHANGED summaryWritten
       ELSE pc' = "done" /\ UNCHANGED <<failed, thrown, summaryWritten>>
  /\ UNCHANGED <<inputs, projectFiles, results, analysis, outputs, warnings,
                 fs, props, ops, ui, hVars>>

Next ==
  \/ ReadInputs
  \/ FindProjectFiles
  \/ CheckEmpty
  \/ CalculateProjectVersion
  \/ Analyze
  \/ CheckNoChanges
  \/ SetOutputs
  \/ BeginUpdate
  \/ UpdateProject
  \/ EndUpdate
  \/ WriteSummary

Spec == Init /\ [][Next]_vars

\* ------------------------------------------- updateProjectFile on its own

\* The tokens of the manifests SpecText enumerates.
TextAlphabet == {"<Version>", "</Version>", "<VersionMajor>", "</VersionMajor>", NL, "x"}

Texts == UNION {[1..k -> TextAlphabet] : k \in 0..MaxTextLen}

\* A manifest holding each of the five elements on a line of its own.
FullManifest ==
  Element("Version", <<"0">>) \o <<NL>> \o Element("VersionMajor", <<"0">>) \o <<NL>>
  \o Element("VersionMinor", <<"0">>) \o <<NL>> \o Element("VersionPatch", <<"0">>)
  \o <<NL>> \o Element("VersionSuffix", <<"x">>) \o <<NL>>

V123r == V123 \o <<"-", "r">>
V123AmpMatch == V123 \o <<"-", "$", "&">>

\* The versions SpecText draws: plain, with a prerelease, with a prerelease
\* holding a "-", with one holding "$&", and one that does not parse.
TextVersions == {V123, V123r, V200rc1, V123AmpMatch, VBad}

InitText ==
  /\ RunInit
  /\ hStep = "text"
  /\ hIn \in {[manifest |-> t, version |-> v] :
               t \in Texts \cup {FullManifest}, v \in TextVersions}
  /\ hOut = <<>>

\* The manifest as the file holds it after the calls so far.
FileContent == IF hOut = <<>> THEN hIn.manifest ELSE hOut[Len(hOut)].content

\* One more call of updateProjectFile with the same record on the same file.
CallUpdateProjectFile ==
  /\ hStep = "text"
  /\ Len(hOut) < 2
  /\ hOut' = Append(hOut, updateProjectFile(FileContent, [version |-> hIn.version]))
  /\ UNCHANGED <<hStep, hIn, runVars>>

NextText == CallUpdateProjectFile

SpecText == InitText /\ [][NextText]_vars

\* -------------------------------------------- createVersionMap on its own

\* The records SpecMap draws: names and paths chosen so that a name can equal
\* another record's (or its own) relative path, and two records can share a
\* name or a path.
MapRecords ==
  {[project |-> n, path |-> p, version |-> v, versionChanged |-> FALSE,
    isTestProject |-> FALSE, commitSha |-> <<>>] :
     n \in {<<"A">>, <<"a", "B">>},
     p \in {<<"w", "A">>, <<"w", "a", "B">>, <<"x", "A">>},
     v \in {V123, V200rc1}}

InitMap ==
  /\ RunInit
  /\ hStep = "map"
  /\ hIn \in UNION {[1..k -> MapRecords] : k \in 0..MaxRecords}
  /\ hOut = <<>>

CallCreateVersionMap ==
  /\ hStep = "map"
  /\ hOut = <<>>
  /\ hOut' = <<createVersionMap(hIn)>>
  /\ UNCHANGED <<hStep, hIn, runVars>>

NextMap == CallCreateVersionMap

SpecMap == InitMap /\ [][NextMap]_vars

\* ------------------------------------- writeMrVersionPropsFile on its own

\* The records SpecProps draws: the versions of SpecText and one with a
\* two-part prerelease, with no commit, a short one and one of eight
\* characters (the file holds its first seven).
PropsRecords ==
  {[project |-> <<"A">>, path |-> PathOf(1), version |-> v, versionChanged |-> TRUE,
    isTestProject |-> FALSE, commitSha |-> c] :
     v \in TextVersions \cup {V123 \o <<"-", "r", ".", "1">>},
     c \in {<<>>, <<"a", "b", "c">>, <<"a", "b", "c", "d", "e", "f", "g", "h">>}}

\* What the companion file holds before the call: nothing (no file), other
\* text, or what an earlier call wrote for another record.
OldProps ==
  {<<>>, <<"x", NL>>} \cup {PropsContent(r) : r \in {q \in PropsRecords : q.version = V123r}}

InitProps ==
  /\ RunInit
  /\ hStep = "props"
  /\ hIn \in {[project |-> r, old |-> o] : r \in PropsRecords, o \in OldProps}
  /\ hOut = <<>>

\* One call of writeMrVersionPropsFile; fs.writeFile succeeds or throws.
CallWriteMrVersionPropsFile ==
  /\ hStep = "props"
  /\ hOut = <<>>
  /\ \E propsOk \in BOOLEAN :
       hOut' = <<PropsStep(hIn.project, TRUE, hIn.old, propsOk)>>
  /\ UNCHANGED <<hStep, hIn, runVars>>

NextProps == CallWriteMrVersionPropsFile

SpecProps == InitProps /\ [][NextProps]_vars

\* ================================================================ claims

\* C1 (as claimed).  updateProjectFile is idempotent: for a version that
\* parses, the second of two calls in a row with the same record leaves the
\* content the first call left and writes nothing.
C1_Idempotent ==
  (hStep = "text" /\ Len(hOut) = 2 /\ MatchVersion(hIn.version).matched)
    => (hOut[2].content = hOut[1].content /\ ~hOut[2].write)

\* The elements updateProjectFile addresses for a version: VersionSuffix only
\* when the version has a prerelease.
RecognizedTags(version) ==
  IF MatchVersion(version).prerelease # <<>> THEN Tags ELSE Tags \ {"VersionSuffix"}

\* The index of the first close tag of t after index i of s, 0 if none.
NextClose(s, i, t) ==
  IF \E j \in (i+1)..Len(s) : s[j] = CloseTag[t]
    THEN CHOOSE j \in (i+1)..Len(s) :
           s[j] = CloseTag[t] /\ \A k \in (i+1)..(j-1) : s[k] # CloseTag[t]
    ELSE 0

\* s with the value of every element of tags taken out: what lies outside
\* the values of those elements.
RECURSIVE Skeleton(_, _, _)
Skeleton(s, i, tags) ==
  IF i > Len(s) THEN <<>>
  ELSE IF \E t \in tags : s[i] = OpenTag[t] /\ NextClose(s, i, t) # 0
    THEN LET t == CHOOSE u \in tags : s[i] = OpenTag[u]
         IN <<s[i], CloseTag[t]>> \o Skeleton(s, NextClose(s, i, t) + 1, tags)
  ELSE <<s[i]>> \o Skeleton(s, i + 1, tags)

\* C2 (as claimed).  updateProjectFile changes only the values of the
\* recognized elements: what lies outside them is the same after the call as
\* before it, also when an element occurs more than once on a line.
C2_OnlyValuesChange ==
  (hStep = "text" /\ Len(hOut) >= 1)
    => Skeleton(hOut[1].content, 1, RecognizedTags(hIn.version))
         = Skeleton(hIn.manifest, 1, RecognizedTags(hIn.version))

Analyzed == analysis # <<>>

OutputsSet == outputs # <<>>

\* The k-th smallest member of a set of indices.
NthOf(S, k) == CHOOSE i \in S : Cardinality({j \in S : j <= i}) = k

\* sub is seq restricted to the indices S, in order.
IsSubsequenceAt(seq, S, sub) ==
  /\ Len(sub) = Cardinality(S)
  /\ \A k \in 1..Len(sub) : sub[k] = seq[NthOf(S, k)]

\* The indices of the records the test-project filter keeps.
KeptIndices ==
  {i \in 1..Len(results) : inputs.includeTestProjects \/ ~results[i].isTestProject}

\* C3.  The records are pushed in discovery order, the post-filter projects
\* are the kept records in that order, and changedProjects is exactly the
\* post-filter projects with versionChanged, in that order: nothing is
\* reordered, repeated or left out.  The changed-projects output is that list.
C3_ChangedSubsequence ==
  /\ \A i \in 1..Len(results) : results[i].path = projectFiles[i]
  /\ Analyzed =>
       /\ IsSubsequenceAt(results, KeptIndices, analysis.projects)
       /\ IsSubsequenceAt(analysis.projects,
                          {i \in 1..Len(analysis.projects) :
                             analysis.projects[i].versionChanged},
                          analysis.changedProjects)
  /\ OutputsSet => outputs.changedProjects = analysis.changedProjects

\* C3's case: an unchanged project ahead of a changed one.
C3_Witness ==
  /\ Analyzed
  /\ Len(analysis.projects) = 2
  /\ ~analysis.projects[1].versionChanged
  /\ analysis.projects[2].versionChanged
  /\ OutputsSet

NonTestRecords == {results[i] : i \in {j \in 1..Len(results) : ~results[j].isTestProject}}

Range(seq) == {seq[i] : i \in 1..Len(seq)}

\* C4.  With includeTestProjects false no test record reaches a downstream
\* view: the analysis and the outputs hold non-test records only, hasChanges
\* and the summary count and list non-test records only, every entry of the
\* version map and the version outputs come from a non-test record, and
\* updateProjects touches only files of non-test records.
C4_NoTestProjectDownstream ==
  ~inputs.includeTestProjects =>
    /\ Analyzed =>
         /\ Range(analysis.projects) \subseteq NonTestRecords
         /\ Range(analysis.changedProjects) \subseteq NonTestRecords
         /\ analysis.hasChanges = (\E r \in NonTestRecords : r.versionChanged)
         /\ analysis.summary.total = Cardinality(NonTestRecords)
         /\ analysis.summary.changed =
              Cardinality({r \in NonTestRecords : r.versionChanged})
         /\ analysis.summary.unchanged =
              Cardinality({r \in NonTestRecords : ~r.versionChanged})
         /\ \A l \in Range(analysis.summary.changedLines)
                     \cup Range(analysis.summary.unchangedLines) :
              \E r \in NonTestRecords : l = <<r.project, r.version>>
    /\ OutputsSet =>
         /\ Range(outputs.projects) \subseteq NonTestRecords
         /\ Range(outputs.changedProjects) \subseteq NonTestRecords
         /\ outputs.hasChanges =
              BoolToString(\E r \in NonTestRecords : r.versionChanged)
         /\ outputs.summary = analysis.summary
         /\ \A k \in DOMAIN outputs.versionMap :
              \E r \in NonTestRecords :
                /\ k \in {r.project, PathRelative(Cwd, r.path)}
                /\ outputs.versionMap[k] = r.version
         /\ IF NonTestRecords = {}
              THEN outputs.version = <<"0", ".", "1", ".", "0">>
              ELSE \E r \in NonTestRecords :
                     /\ outputs.version = r.version
                     /\ outputs.major = VersionOutputs(<<r>>).major
                     /\ outputs.minor = VersionOutputs(<<r>>).minor
                     /\ outputs.patch = VersionOutputs(<<r>>).patch
                     /\ outputs.prerelease = VersionOutputs(<<r>>).prerelease
    /\ \A k \in 1..Len(ops) :
         \E r \in NonTestRecords :
           ops[k].project = r.project /\ ops[k].path \in {r.path, PropsPath(r)}

\* C4's case: a test project ahead of a non-test one is filtered out, and the
\* run has set its outputs and written files.
C4_Witness ==
  /\ ~inputs.includeTestProjects
  /\ Len(results) = 2
  /\ results[1].isTestProject /\ results[1].versionChanged
  /\ ~results[2].isTestProject
  /\ OutputsSet
  /\ \E k \in 1..Len(ops) : ops[k].op = "writeFile" /\ ops[k].ok

\* The two keys createVersionMap inserts for a record.
KeysOf(r) == {r.project, PathRelative(Cwd, r.path)}

\* The last record of records that inserts key k.
LastWriter(records, k) ==
  CHOOSE i \in 1..Len(records) :
    /\ k \in KeysOf(records[i])
    /\ \A j \in (i+1)..Len(records) : k \notin KeysOf(records[j])

\* C5.  The version map holds exactly the names and relative paths of the
\* records, each mapped to the version of the last record inserting it,
\* whatever the collision (name/name, path/path, name/path).
C5_LastWriterWins ==
  (hStep = "map" /\ hOut # <<>>) =>
    /\ DOMAIN hOut[1] = UNION {KeysOf(hIn[i]) : i \in 1..Len(hIn)}
    /\ \A k \in DOMAIN hOut[1] : hOut[1][k] = hIn[LastWriter(hIn, k)].version

\* C5's case: the first record's name is the second record's relative path,
\* with different versions, and the map has been built.
C5_Witness ==
  /\ hStep = "map" /\ hOut # <<>>
  /\ Len(hIn) = 2
  /\ hIn[1].project = PathRelative(Cwd, hIn[2].path)
  /\ hIn[1].project # hIn[2].project
  /\ hIn[1].version # hIn[2].version

\* The indices of the operations attempted for record p.
OpsOf(p) == {k \in 1..Len(ops) : ops[k].project = p.project}

\* A file operation for p threw.
Threw(p) == \E k \in OpsOf(p) : ~ops[k].ok

\* The records updateProjects is done with.
Passed == IF ui > 0 THEN {analysis.projects[i] : i \in 1..(ui - 1)} ELSE {}

\* updateProjects has returned.
UpdateReturned == ui > 0 /\ pc \in {"summary", "done"}

\* C6.  An error raised for one record never leaves updateProjects: it is
\* reported in a warning naming the project, and updateProjects goes on to
\* every record of its list: for each, the manifest update is attempted when
\* enabled, and so is the companion write when enabled, the version parses
\* and the record's own update did not throw.
C6_FailureContained ==
  /\ thrown # "update"
  /\ UpdateReturned => ui = Len(analysis.projects) + 1
  /\ \A p \in Passed :
       /\ inputs.updateProjectProperties =>
            \E k \in OpsOf(p) : ops[k].op = "readFile" /\ ops[k].path = p.path
       /\ ( /\ inputs.writeMrVersionProps
            /\ MatchVersion(p.version).matched
            /\ ~\E k \in OpsOf(p) : ops[k].path = p.path /\ ~ops[k].ok )
            => \E k \in OpsOf(p) : ops[k].op = "writeFile" /\ ops[k].path = PropsPath(p)
       /\ Threw(p) <=> \E k \in 1..Len(warnings) : warnings[k] = FailedWarning(p)

\* C6's case: the first record's manifest update threw and the second
\* record's manifest and companion file were then written.
C6_Witness ==
  /\ UpdateReturned
  /\ Len(analysis.projects) = 2
  /\ \E k \in OpsOf(analysis.projects[1]) : ops[k].op = "readFile" /\ ~ops[k].ok
  /\ \E k \in OpsOf(analysis.projects[2]) :
       ops[k].path = analysis.projects[2].path /\ ops[k].op = "writeFile" /\ ops[k].ok
  /\ \E k \in OpsOf(analysis.projects[2]) :
       ops[k].path = PropsPath(analysis.projects[2]) /\ ops[k].ok

\* C7.  A record whose version does not parse, once updateProjects is done
\* with it: a warning names it, its manifest is as it was and nothing was
\* written for it (manifest or companion file), it is in the projects output,
\* the summary and the version map as the oracle gave it; updateProjects
\* goes through its whole list, and the run ends not failed (no error being
\* thrown after updateProjects, where only the job summary write can throw).
C7_MismatchSkipped ==
  /\ \A p \in Passed :
       ~MatchVersion(p.version).matched =>
         /\ \E k \in 1..Len(warnings) :
              warnings[k] \in {ParseWarning(p), FailedWarning(p)}
         /\ Threw(p) \/ \E k \in 1..Len(warnings) : warnings[k] = ParseWarning(p)
         /\ fs[p.path] = ManifestOf(IndexOfPath(p.path))
         /\ \A k \in OpsOf(p) : ops[k].op # "writeFile"
         /\ p \in Range(results) /\ p \in Range(outputs.projects)
         /\ <<p.project, p.version>> \in
              Range(outputs.summary.changedLines) \cup Range(outputs.summary.unchangedLines)
         /\ outputs.versionMap[p.project] = p.version
         /\ outputs.versionMap[PathRelative(Cwd, p.path)] = p.version
  /\ UpdateReturned => ui = Len(analysis.projects) + 1
  /\ (UpdateReturned /\ thrown # "summary") => ~failed

\* C7's case: the first of two records does not parse, both mutations are
\* enabled, the second record was written and the run has ended.
C7_Witness ==
  /\ pc = "done" /\ ~failed /\ ui = 3
  /\ inputs.updateProjectProperties /\ inputs.writeMrVersionProps
  /\ ~MatchVersion(analysis.projects[1].version).matched
  /\ \E k \in OpsOf(analysis.projects[1]) : ops[k].op = "readFile" /\ ops[k].ok
  /\ \E k \in OpsOf(analysis.projects[2]) : ops[k].op = "writeFile" /\ ops[k].ok

\* (a) fail-on-no-changes is set and discovery found no manifest.
NoManifestsUnderFlag ==
  inputs.failOnNoChanges /\ thrown \notin {"input", "discovery"} /\ Len(projectFiles) = 0

\* (b) fail-on-no-changes is set and no post-filter record has versionChanged.
NoChangesUnderFlag ==
  inputs.failOnNoChanges /\ Analyzed /\ \A i \in KeptIndices : ~results[i].versionChanged

\* C8 (as claimed).  The run ends failed exactly when (a), (b) or (c) an
\* error occurred during discovery or an oracle query.
C8_FailedExactlyWhen ==
  pc = "done" =>
    (failed <=> \/ NoManifestsUnderFlag
                \/ NoChangesUnderFlag
                \/ thrown \in {"discovery", "oracle"})

\* C8 (amended).  The run ends failed exactly when (a), (b) or (c) an error
\* is thrown in run outside updateProjects: reading the inputs, during
\* discovery, in an oracle query or writing the job summary.  No error of a
\* manifest mutation leaves updateProjects, and with fail-on-no-changes unset
\* the run fails only by a thrown error.
C8_FailedExactlyWhenThrown ==
  /\ pc = "done" =>
       (failed <=> \/ NoManifestsUnderFlag
                   \/ NoChangesUnderFlag
                   \/ thrown \in {"input", "discovery", "oracle", "summary"})
  /\ thrown # "update"
  /\ (failed /\ ~inputs.failOnNoChanges) => thrown # "none"
  /\ failed => pc = "done"

\* C8's case: fail-on-no-changes unset, nothing changed, a manifest write
\* threw, and the run ended without failing.
C8_Witness ==
  /\ pc = "done" /\ ~failed
  /\ ~inputs.failOnNoChanges
  /\ Analyzed /\ ~analysis.hasChanges /\ Len(analysis.projects) > 0
  /\ \E k \in 1..Len(ops) : ~ops[k].ok

\* C9 (as claimed).  With a changed project, the version, major, minor,
\* patch and prerelease outputs are those of the first changed project.
C9_FirstChangedProject ==
  (OutputsSet /\ Len(outputs.changedProjects) > 0) =>
    /\ outputs.version = outputs.changedProjects[1].version
    /\ outputs.major = VersionOutputs(<<outputs.changedProjects[1]>>).major
    /\ outputs.minor = VersionOutputs(<<outputs.changedProjects[1]>>).minor
    /\ outputs.patch = VersionOutputs(<<outputs.changedProjects[1]>>).patch
    /\ outputs.prerelease = VersionOutputs(<<outputs.changedProjects[1]>>).prerelease

\* major.minor.patch, then "-" and the prerelease when there is one.
Rejoin(major, minor, patch, prerelease) ==
  major \o <<".">> \o minor \o <<".">> \o patch
  \o (IF prerelease # <<>> THEN <<"-">> \o prerelease ELSE <<>>)

\* C10 (as claimed).  For a first project whose version parses, the major,
\* minor, patch and prerelease outputs rejoin to the version output.
C10_OutputsRoundTrip ==
  (OutputsSet /\ Len(outputs.projects) > 0 /\ MatchVersion(outputs.version).matched) =>
    Rejoin(outputs.major, outputs.minor, outputs.patch, outputs.prerelease)
      = outputs.version

\* The number of manifests calculateProjectVersion has been called for: one
\* per record pushed, and the one whose call threw.
OracleCalls == Len(results) + (IF thrown = "oracle" THEN 1 ELSE 0)

\* C11 (as claimed).  When calculateProjectVersion fails for a manifest, the
\* oracle is still invoked for every discovered manifest by the end of the
\* run, those later in discovery order included.
C11_SiblingsStillQueried ==
  (pc = "done" /\ thrown = "oracle") => OracleCalls = Len(projectFiles)

\* The manifests and companion files as they were when the run started.
FilesUntouched ==
  /\ \A p \in DOMAIN fs : fs[p] = ManifestOf(IndexOfPath(p))
  /\ \A d \in DOMAIN props : props[d] = <<>>

\* C12.  With dry-run set the run attempts no file operation on a manifest
\* or a companion file, whatever update-project-properties and
\* write-mrversion-props are, so none is rewritten or created; and in every
\* run, dry or not, the outputs are set before the mutation step, to what the
\* records and include-test-projects alone determine (stated where the
\* outputs have just been set, and throughout a dry run).
C12_DryRunWritesNothing ==
  /\ inputs.dryRun =>
       /\ ops = <<>>
       /\ ui = 0
       /\ FilesUntouched
  /\ pc \in {"mutate", "update", "summary"} => OutputsSet
  /\ (pc = "done" /\ ~failed) => OutputsSet
  /\ (OutputsSet /\ (pc = "mutate" \/ inputs.dryRun)) =>
       outputs = RunOutputs(analyzeResults(results, inputs.includeTestProjects))

\* C12's case: a dry run with both mutations enabled and a changed project
\* whose manifest holds another version has ended with its outputs set.
C12_Witness ==
  /\ inputs.dryRun /\ inputs.updateProjectProperties /\ inputs.writeMrVersionProps
  /\ pc = "done" /\ ~failed /\ OutputsSet
  /\ Len(analysis.changedProjects) > 0
  /\ analysis.projects[1].version = V200rc1
  /\ outputs.version = V200rc1

\* Whether text s holds an element t, and the value of the first one: what
\* stands between its open tag and the next close tag.
HasElement(s, t) == \E i \in 1..Len(s) : s[i] = OpenTag[t] /\ NextClose(s, i, t) # 0

FirstOpen(s, t) ==
  CHOOSE i \in 1..Len(s) : s[i] = OpenTag[t] /\ \A k \in 1..(i-1) : s[k] # OpenTag[t]

ValueOf(s, t) == SubSeq(s, FirstOpen(s, t) + 1, NextClose(s, FirstOpen(s, t), t) - 1)

\* The fields of a companion file agree: Version is
\* VersionMajor.VersionMinor.VersionPatch, then "-" and VersionSuffix exactly
\* when the file holds a VersionSuffix.
FieldsAgree(file) ==
  /\ \A t \in Tags \ {"VersionSuffix"} : HasElement(file, t)
  /\ ValueOf(file, "Version") =
       Rejoin(ValueOf(file, "VersionMajor"), ValueOf(file, "VersionMinor"),
              ValueOf(file, "VersionPatch"),
              IF HasElement(file, "VersionSuffix")
                THEN ValueOf(file, "VersionSuffix") ELSE <<>>)
  /\ HasElement(file, "VersionSuffix") => ValueOf(file, "VersionSuffix") # <<>>

\* C13.  For a record whose version parses, writeMrVersionPropsFile always
\* attempts the write, whatever the file held; what a successful write leaves
\* is the text the record alone gives (the same as on no file at all); its
\* fields agree, and it holds a VersionSuffix element exactly when the
\* version has a prerelease.
C13_PropsDeterministic ==
  (hStep = "props" /\ hOut # <<>> /\ MatchVersion(hIn.project.version).matched) =>
    /\ Len(hOut[1].ops) = 1 /\ hOut[1].ops[1].op = "writeFile"
    /\ hOut[1].warns = <<>>
    /\ IF hOut[1].threw
         THEN hOut[1].content = hIn.old
         ELSE /\ hOut[1].content = PropsStep(hIn.project, TRUE, <<>>, TRUE).content
              /\ FieldsAgree(hOut[1].content)
              /\ ValueOf(hOut[1].content, "Version") = hIn.project.version
              /\ HasElement(hOut[1].content, "VersionSuffix")
                   <=> MatchVersion(hIn.project.version).prerelease # <<>>

\* C13's case: a record with a prerelease written over a companion file that
\* held another record's text.
C13_Witness ==
  /\ hStep = "props" /\ hOut # <<>> /\ ~hOut[1].threw
  /\ hIn.project.version = V200rc1
  /\ HasElement(hIn.old, "Version") /\ ValueOf(hIn.old, "Version") = V123r
  /\ ValueOf(hOut[1].content, "VersionSuffix") = <<"r", "-", "1">>

\* A file operation on a manifest or a companion file has been attempted, or
\* one of them differs from what it held when the run started.
FileTouched == ops # <<>> \/ ~FilesUntouched

\* The run ended failed for one of: an error reading the inputs, in discovery
\* or in an oracle query, no manifest under the flag, no change under the flag.
FailedBeforeOutputs ==
  pc = "done" /\ failed /\ thrown # "summary"

\* C14.  A file is touched only once every manifest has its record, the
\* analysis is made, the fail-on-no-changes check has passed and the outputs
\* are set; a run that ends failed for a reason other than the job summary
\* write (oracle error, no manifest or no change under the flag, input or
\* discovery error) has touched no file and has set no output.
C14_WritesAfterOutputs ==
  /\ FileTouched =>
       /\ Len(results) = Len(projectFiles)
       /\ thrown \notin {"input", "discovery", "oracle"}
       /\ Analyzed
       /\ ~(inputs.failOnNoChanges /\ ~analysis.hasChanges)
       /\ OutputsSet
       /\ ui > 0
  /\ FailedBeforeOutputs => (~FileTouched /\ ~OutputsSet /\ ui = 0)
  /\ (failed /\ thrown \in {"none", "input", "discovery", "oracle"}) => FailedBeforeOutputs

\* C14's case: with the manifest update enabled and no dry run, the second
\* oracle query failed after the first answered with a version the manifest
\* does not hold; the run has ended.
C14_Witness ==
  /\ pc = "done" /\ failed /\ thrown = "oracle"
  /\ inputs.updateProjectProperties /\ inputs.writeMrVersionProps /\ ~inputs.dryRun
  /\ Len(projectFiles) = 2 /\ Len(results) = 1
  /\ results[1].version = V200rc1 /\ results[1].versionChanged
  /\ ~FileTouched /\ ~OutputsSet

====
